---- MODULE Spec2Model ----
(***************************************************************************)
(* Model of ch2/process-creation/proc_demo.c: a program that re-executes   *)
(* itself as two child processes, one after the other, waits for each and  *)
(* reports how it ended.  Both builds of the file are modelled: the        *)
(* fork/execvp/waitpid build ("unix") and the CreateProcessA /             *)
(* WaitForSingleObject build ("win").                                      *)
(*                                                                         *)
(* A process is a record of the process table procs (a sequence indexed by *)
(* pid; pid 1 is the process started from the terminal).  The operating    *)
(* system decides: whether a spawn succeeds, whether execvp succeeds,      *)
(* whether a wait call succeeds, and whether a spawned child is killed by  *)
(* a signal.                                                               *)
(***************************************************************************)
EXTENDS Integers, Sequences, FiniteSets, TLC

VARIABLES
  platform,        \* "unix" or "win": which half of the #ifdef was compiled
  sigchldIgnored,  \* unix: SIGCHLD disposition inherited as SIG_IGN
  procs,           \* process table: pid -> process record
  out,             \* the lines passed to printf and perror, in the order of the calls
  sys              \* history of the process-control calls and their results

vars == <<platform, sigchldIgnored, procs, out, sys>>

----------------------------------------------------------------------------
(* Bounds of the model *)

MaxArgs == 2          \* arguments after argv[0] of the root process
MaxRootIdChars == 1   \* characters of --id= text over a root argument list (Spec)
MaxIdChars == 3       \* characters of --id= text over an argument list (SpecArgs)
MaxRawStatus == 65535 \* raw wait statuses the decode is examined on

----------------------------------------------------------------------------
(* C strings are sequences of one-character strings *)

ProgName == <<"p">>
ChildFlag == <<"-", "-", "c", "h", "i", "l", "d">>
IdPrefix == <<"-", "-", "i", "d", "=">>
OtherArg == <<"-", "-", "x">>

\* characters an --id= text is built from
Chars == {"1", "3", "a", "-", " "}

\* characters of the --id= texts given to a root process whose whole run is followed
RootChars == {"3", "a"}

NUL == "\\0"

CharAt(s, k) == IF k <= Len(s) THEN s[k] ELSE NUL

\* strcmp(a, b) == 0
strcmp0(a, b) == a = b

\* strncmp(a, b, n) == 0: the first n characters agree, up to a common end
strncmp0(a, b, n) ==
  \A k \in 1..n :
    (\A j \in 1..(k - 1) : CharAt(a, j) # NUL) => CharAt(a, k) = CharAt(b, k)

Digits == <<"0", "1", "2", "3", "4", "5", "6", "7", "8", "9">>

isdigit(c) == \E d \in 1..10 : Digits[d] = c

DigitVal(c) == (CHOOSE d \in 1..10 : Digits[d] = c) - 1

isspace(c) == c \in {" ", "\t", "\n", "\r"}

RECURSIVE SkipSpace(_)
SkipSpace(s) ==
  IF s # <<>> /\ isspace(Head(s)) THEN SkipSpace(Tail(s)) ELSE s

RECURSIVE AccDigits(_, _)
AccDigits(s, acc) ==
  IF s # <<>> /\ isdigit(Head(s))
  THEN AccDigits(Tail(s), acc * 10 + DigitVal(Head(s)))
  ELSE acc

\* mutant of atoi: a strict parse, 0 unless the whole text is digits
atoiStrict(s) ==
  IF s # <<>> /\ (\A k \in 1..Len(s) : isdigit(s[k])) THEN AccDigits(s, 0) ELSE 0

\* atoi: leading white space, an optional sign, then the longest run of digits
atoi(s) ==
  LET t == SkipSpace(s) IN
    IF t # <<>> /\ Head(t) = "-" THEN 0 - AccDigits(Tail(t), 0)
    ELSE IF t # <<>> /\ Head(t) = "+" THEN AccDigits(Tail(t), 0)
    ELSE AccDigits(t, 0)

\* the characters "%d" writes for n
RECURSIVE FmtNat(_)
FmtNat(n) ==
  IF n < 10 THEN <<Digits[n + 1]>>
  ELSE FmtNat(n \div 10) \o <<Digits[(n % 10) + 1]>>

FmtInt(n) == IF n < 0 THEN <<"-">> \o FmtNat(0 - n) ELSE FmtNat(n)

----------------------------------------------------------------------------
(* Role resolution: parse_args *)

\* mutant of parse_arg: an --id= argument also selects the child role
parse_argIdSelectsChild(g, arg) ==
  IF strcmp0(arg, ChildFlag) THEN [g EXCEPT !.is_child = 1]
  ELSE IF strncmp0(arg, IdPrefix, 5)
       THEN [g EXCEPT !.is_child = 1, !.child_idx = atoi(SubSeq(arg, 6, Len(arg)))]
       ELSE g

\* mutant of parse_arg: an --id= argument counts only after --child
parse_argIdAfterChild(g, arg) ==
  IF strcmp0(arg, ChildFlag) THEN [g EXCEPT !.is_child = 1]
  ELSE IF strncmp0(arg, IdPrefix, 5) /\ g.is_child = 1
       THEN [g EXCEPT !.child_idx = atoi(SubSeq(arg, 6, Len(arg)))]
       ELSE g

\* the body of the loop of parse_args for one argument; g holds the globals
parse_arg(g, arg) ==
  IF strcmp0(arg, ChildFlag) THEN [g EXCEPT !.is_child = 1]
  ELSE IF strncmp0(arg, IdPrefix, 5)
       THEN [g EXCEPT !.child_idx = atoi(SubSeq(arg, 6, Len(arg)))]
       ELSE g

\* for (i = 1; i < argc; ++i): C's argv[i] is argv[i + 1] here
RECURSIVE parse_from(_, _, _)
parse_from(argv, i, g) ==
  IF i < Len(argv) THEN parse_from(argv, i + 1, parse_arg(g, argv[i + 1])) ELSE g

\* mutant of Globals0: the index starts at 1 instead of 0
Globals0IndexOne == [is_child |-> 0, child_idx |-> 1]

\* the globals as they are defined, before parse_args has run
Globals0 == [is_child |-> 0, child_idx |-> 0]

parse_args(argv) == parse_from(argv, 1, Globals0)

----------------------------------------------------------------------------
(* Argument lists the root process is started with *)

IdArg(t) == IdPrefix \o t

IsIdArg(a) == strncmp0(a, IdPrefix, 5)

IdText(a) == SubSeq(a, 6, Len(a))

IdCost(a) == IF IsIdArg(a) THEN Len(a) - 5 ELSE 0

TextsUpTo(b, cs) == UNION {[1..k -> cs] : k \in 0..b}

ArgsUpTo(b, cs) == {ChildFlag, OtherArg} \cup {IdArg(t) : t \in TextsUpTo(b, cs)}

\* every list of at most n arguments whose --id= texts, over the characters cs,
\* have at most b characters in all
RECURSIVE ArgLists(_, _, _)
ArgLists(n, b, cs) ==
  {<<>>} \cup
  (IF n = 0 THEN {}
   ELSE UNION {{<<a>> \o r : r \in ArgLists(n - 1, b - IdCost(a), cs)} :
                 a \in ArgsUpTo(b, cs)})

----------------------------------------------------------------------------
(* Processes *)

Root == 1

\* mutant of NumChildren: the loop runs once more
NumChildrenOneMore == 2 + 1

NumChildren == 2

ExecFailCode == 127

STILL_ACTIVE == 259

Signals == {9, 11}

\* signals whose default action also dumps core (status bit 0x80)
CoreSignals == {11}

NoCause == [how |-> "none", v |-> 0, h |-> 0]

\* a fresh process image: what main() finds when it starts
NewProc(argv, ppid, handle) ==
  [argv |-> argv, is_child |-> Globals0.is_child, child_idx |-> Globals0.child_idx,
   pc |-> "start", i |-> 0, pid |-> 0, ppid |-> ppid,
   st |-> "running", cause |-> NoCause, handle |-> handle]

\* An exit code is a record [h, v].  An int code is [h |-> 0, v |-> the int].
\* A 32-bit unsigned code (UINT, DWORD) is its two 16-bit halves, h the high
\* one and v the low one; of a negative int it is the two's complement pattern.
IntCode(x) == [h |-> 0, v |-> x]

Dword(x) == [h |-> (x \div 65536) % 65536, v |-> x % 65536]

\* a console line: who wrote it, which line, its two numbers
Out(p, ev, a, b) == [p |-> p, ev |-> ev, a |-> a, b |-> b, h |-> 0]

\* a console line whose second number is an exit code
OutCode(p, ev, a, code) == [p |-> p, ev |-> ev, a |-> a, b |-> code.v, h |-> code.h]

\* a process-control call: who made it, which call, the loop index, its
\* result and the value it passed or stored
Sys(p, ev, i, r, v) == [p |-> p, ev |-> ev, i |-> i, r |-> r, v |-> v, h |-> 0]

SysCode(p, ev, i, r, code) ==
  [p |-> p, ev |-> ev, i |-> i, r |-> r, v |-> code.v, h |-> code.h]

Running(p) == p \in DOMAIN procs /\ procs[p].st = "running"

\* what is left of process p once it has terminated
AfterDeath(p) ==
  IF p = Root THEN "zombie"
  ELSE IF platform = "unix" THEN (IF sigchldIgnored THEN "gone" ELSE "zombie")
  ELSE IF procs[p].handle = "open" THEN "zombie" ELSE "gone"

Terminated(p, how, code) ==
  [procs[p] EXCEPT !.pc = "exited", !.st = AfterDeath(p),
                   !.cause = [how |-> how, v |-> code.v, h |-> code.h]]

\* the raw status waitpid stores for a terminated child
WaitStatus(cause) ==
  IF cause.how = "exit" THEN (cause.v % 256) * 256
  ELSE cause.v + (IF cause.v \in CoreSignals THEN 128 ELSE 0)

\* the DWORD GetExitCodeProcess stores
ExitCodeOf(pr) ==
  IF pr.st = "running" THEN Dword(STILL_ACTIVE) ELSE [h |-> pr.cause.h, v |-> pr.cause.v]

WIFEXITED(s) == (s % 128) = 0

WEXITSTATUS(s) == (s \div 256) % 256

\* mutant of WTERMSIG: the core-dump bit is not masked off
WTERMSIGWithCoreBit(s) == s % 256

WTERMSIG(s) == s % 128

WIFSIGNALED(s) ==
  LET t == (s % 128) + 1
      sc == IF t >= 128 THEN t - 256 ELSE t
  IN (sc \div 2) > 0

\* the line the unix parent prints for child i from the raw status
Decode(p, i, status) ==
  IF WIFEXITED(status) THEN Out(p, "exited_normally", i, WEXITSTATUS(status))
  ELSE IF WIFSIGNALED(status) THEN Out(p, "killed_by_signal", i, WTERMSIG(status))
  ELSE Out(p, "terminated_status", i, status)

----------------------------------------------------------------------------
(* Initial states *)

InitWith(lists) ==
  /\ platform \in {"unix", "win"}
  /\ sigchldIgnored \in (IF platform = "unix" THEN BOOLEAN ELSE {FALSE})
  /\ \E args \in lists : procs = <<NewProc(<<ProgName>> \o args, 0, "none")>>
  /\ out = <<>>
  /\ sys = <<>>

Init == InitWith(ArgLists(MaxArgs, MaxRootIdChars, RootChars))

InitArgs == InitWith(ArgLists(MaxArgs, MaxIdChars, Chars))

----------------------------------------------------------------------------
(* main(), both roles *)

\* main: parse_args(argc, argv)
ParseArgs(p) ==
  /\ Running(p) /\ procs[p].pc = "start"
  /\ LET g == parse_args(procs[p].argv) IN
       procs' = [procs EXCEPT ![p].is_child = g.is_child,
                              ![p].child_idx = g.child_idx,
                              ![p].pc = "main"]
  /\ UNCHANGED <<platform, sigchldIgnored, out, sys>>

\* main: if (is_child) child_work(), up to the sleep
MainChild(p) ==
  /\ Running(p) /\ procs[p].pc = "main" /\ procs[p].is_child # 0
  /\ out' = Append(out, Out(p, "hello", procs[p].child_idx, procs[p].ppid))
  /\ procs' = [procs EXCEPT ![p].pc = "sleeping"]
  /\ UNCHANGED <<platform, sigchldIgnored, sys>>

\* the exit code the operating system records for exit(code)
ExitArg(code) == IF platform = "win" THEN Dword(code) ELSE IntCode(code)

\* mutant of ChildWake: the worker exits with 0 instead of its index
ChildWakeExitsZero(p) ==
  /\ Running(p) /\ procs[p].pc = "sleeping"
  /\ out' = Append(out, Out(p, "done", procs[p].child_idx, 0))
  /\ procs' = [procs EXCEPT ![p] = Terminated(p, "exit", ExitArg(0))]
  /\ sys' = Append(sys, SysCode(p, "exit", 0, 0, ExitArg(0)))
  /\ UNCHANGED <<platform, sigchldIgnored>>

\* mutant of ChildWake: child_work returns and main goes on to its return 0
ChildWakeReturns(p) ==
  /\ Running(p) /\ procs[p].pc = "sleeping"
  /\ out' = Append(out, Out(p, "done", procs[p].child_idx, 0))
  /\ procs' = [procs EXCEPT ![p] = Terminated(p, "exit", ExitArg(0))]
  /\ sys' = Append(sys, SysCode(p, "return", 0, 0, ExitArg(0)))
  /\ UNCHANGED <<platform, sigchldIgnored>>

\* child_work: the sleep returns, the completion line, _exit / ExitProcess
ChildWake(p) ==
  /\ Running(p) /\ procs[p].pc = "sleeping"
  /\ out' = Append(out, Out(p, "done", procs[p].child_idx, 0))
  /\ procs' = [procs EXCEPT ![p] = Terminated(p, "exit", ExitArg(procs[p].child_idx))]
  /\ sys' = Append(sys, SysCode(p, "exit", 0, 0, ExitArg(procs[p].child_idx)))
  /\ UNCHANGED <<platform, sigchldIgnored>>

\* main: not a child: the first lines of the parent, and the loop starts at i = 1
MainParent(p) ==
  /\ Running(p) /\ procs[p].pc = "main" /\ procs[p].is_child = 0
  /\ out' = out \o <<Out(p, "starting", 0, 0),
                     Out(p, IF platform = "win" THEN "mypath" ELSE "mypid", p, 0)>>
  /\ procs' = [procs EXCEPT ![p].pc = "loop", ![p].i = 1]
  /\ UNCHANGED <<platform, sigchldIgnored, sys>>

\* the loop is left: the final lines and return 0
ParentFinish(p) ==
  /\ Running(p) /\ procs[p].pc = "loop" /\ ~(procs[p].i <= NumChildren)
  /\ out' = out \o <<Out(p, "all_completed", 0, 0), Out(p, "terminating", 0, 0)>>
  /\ procs' = [procs EXCEPT ![p] = Terminated(p, "exit", ExitArg(0))]
  /\ sys' = Append(sys, SysCode(p, "return", 0, 0, ExitArg(0)))
  /\ UNCHANGED <<platform, sigchldIgnored>>

----------------------------------------------------------------------------
(* The parent's loop, fork/execvp/waitpid build *)

InLoop(p) == Running(p) /\ procs[p].pc = "loop" /\ procs[p].i <= NumChildren

\* mutant of ForkFail: a failed fork ends the parent with exit code 1
ForkFailAborts(p) ==
  /\ platform = "unix" /\ InLoop(p)
  /\ out' = out \o <<Out(p, "creating", procs[p].i, 0), Out(p, "fork_failed", 0, 0)>>
  /\ sys' = sys \o <<Sys(p, "spawn", procs[p].i, -1, 0), Sys(p, "exit", 0, 0, 1)>>
  /\ procs' = [procs EXCEPT ![p] = Terminated(p, "exit", IntCode(1))]
  /\ UNCHANGED <<platform, sigchldIgnored>>

\* fork() returns a negative value: perror and continue
ForkFail(p) ==
  /\ platform = "unix" /\ InLoop(p)
  /\ out' = out \o <<Out(p, "creating", procs[p].i, 0), Out(p, "fork_failed", 0, 0)>>
  /\ sys' = Append(sys, Sys(p, "spawn", procs[p].i, -1, 0))
  /\ procs' = [procs EXCEPT ![p].i = @ + 1]
  /\ UNCHANGED <<platform, sigchldIgnored>>

\* fork() succeeds: the copy starts in the child branch; the parent prints and
\* blocks in waitpid
ForkOK(p) ==
  /\ platform = "unix" /\ InLoop(p)
  /\ LET c == Len(procs) + 1
         i == procs[p].i
     IN /\ out' = out \o <<Out(p, "creating", i, 0), Out(p, "created", i, c),
                           Out(p, "waiting", i, 0)>>
        /\ sys' = Append(sys, Sys(p, "spawn", i, c, 0))
        /\ procs' = Append([procs EXCEPT ![p].pid = c, ![p].pc = "wait"],
                           [procs[p] EXCEPT !.pc = "forked", !.ppid = p, !.pid = 0])
  /\ UNCHANGED <<platform, sigchldIgnored>>

\* mutant of idarg: the index is written zero-based
idargZeroBased(i) == IdPrefix \o FmtInt(i - 1)

\* snprintf(idarg, sizeof(idarg), "--id=%d", i)
idarg(i) ==
  LET full == IdPrefix \o FmtInt(i) IN
    IF Len(full) > 15 THEN SubSeq(full, 1, 15) ELSE full

\* the argument vector the parent builds for child i
ChildArgs(argv, i) == <<argv[1], ChildFlag, idarg(i)>>

\* the forked copy: execvp replaces the image
ExecOK(c) ==
  /\ platform = "unix" /\ Running(c) /\ procs[c].pc = "forked"
  /\ out' = out \o <<Out(c, "im_child", procs[c].i, procs[c].ppid),
                     Out(c, "executing", procs[c].i, 0)>>
  /\ sys' = Append(sys, Sys(c, "exec", procs[c].i, 0, 0))
  /\ procs' = [procs EXCEPT ![c] = NewProc(ChildArgs(procs[c].argv, procs[c].i),
                                           procs[c].ppid, "none")]
  /\ UNCHANGED <<platform, sigchldIgnored>>

\* mutant of ExecFail: no _exit after the failed execvp, the copy goes on with
\* the loop of the parent
ExecFailFallsThrough(c) ==
  /\ platform = "unix" /\ Running(c) /\ procs[c].pc = "forked"
  /\ out' = out \o <<Out(c, "im_child", procs[c].i, procs[c].ppid),
                     Out(c, "executing", procs[c].i, 0),
                     Out(c, "execvp_failed", 0, 0)>>
  /\ sys' = Append(sys, Sys(c, "exec", procs[c].i, -1, 0))
  /\ procs' = [procs EXCEPT ![c].pc = "loop", ![c].i = @ + 1]
  /\ UNCHANGED <<platform, sigchldIgnored>>

\* the forked copy: execvp returns: perror and _exit(127)
ExecFail(c) ==
  /\ platform = "unix" /\ Running(c) /\ procs[c].pc = "forked"
  /\ out' = out \o <<Out(c, "im_child", procs[c].i, procs[c].ppid),
                     Out(c, "executing", procs[c].i, 0),
                     Out(c, "execvp_failed", 0, 0)>>
  /\ sys' = sys \o <<Sys(c, "exec", procs[c].i, -1, 0),
                     Sys(c, "exit", 0, 0, ExecFailCode)>>
  /\ procs' = [procs EXCEPT ![c] = Terminated(c, "exit", IntCode(ExecFailCode))]
  /\ UNCHANGED <<platform, sigchldIgnored>>

\* a spawned child is killed by a signal
Kill(c, sig) ==
  /\ platform = "unix" /\ c # Root /\ Running(c)
  /\ sys' = Append(sys, Sys(c, "kill", 0, 0, sig))
  /\ procs' = [procs EXCEPT ![c] = Terminated(c, "signal", IntCode(sig))]
  /\ UNCHANGED <<platform, sigchldIgnored, out>>

\* what the parent does once waitpid has returned ret, with status as it then is
AfterWaitpid(p, ret, status) ==
  /\ out' = Append(out, Decode(p, procs[p].i, status))
  /\ sys' = Append(sys, Sys(p, "wait", procs[p].i, ret, status))

\* waitpid(pid, &status, 0) returns the terminated child: it is reaped
Waitpid(p) ==
  /\ platform = "unix" /\ Running(p) /\ procs[p].pc = "wait"
  /\ LET c == procs[p].pid IN
       /\ procs[c].st = "zombie"
       /\ AfterWaitpid(p, c, WaitStatus(procs[c].cause))
       /\ procs' = [procs EXCEPT ![c].st = "gone", ![p].pc = "loop", ![p].i = @ + 1]
  /\ UNCHANGED <<platform, sigchldIgnored>>

\* mutant of WaitpidFail: a failed waitpid ends the parent with exit code 1
WaitpidFailAborts(p) ==
  /\ platform = "unix" /\ Running(p) /\ procs[p].pc = "wait"
  /\ sigchldIgnored
  /\ procs[procs[p].pid].st = "gone"
  /\ sys' = sys \o <<Sys(p, "wait", procs[p].i, -1, 0), Sys(p, "exit", 0, 0, 1)>>
  /\ procs' = [procs EXCEPT ![p] = Terminated(p, "exit", IntCode(1))]
  /\ UNCHANGED <<platform, sigchldIgnored, out>>

\* waitpid fails (ECHILD: with SIGCHLD ignored the child left no zombie): it
\* returns -1 once the child is gone and status keeps its initial 0
WaitpidFail(p) ==
  /\ platform = "unix" /\ Running(p) /\ procs[p].pc = "wait"
  /\ sigchldIgnored
  /\ LET c == procs[p].pid IN
       /\ procs[c].st = "gone"
       /\ AfterWaitpid(p, -1, 0)
       /\ procs' = [procs EXCEPT ![p].pc = "loop", ![p].i = @ + 1]
  /\ UNCHANGED <<platform, sigchldIgnored>>

----------------------------------------------------------------------------
(* The parent's loop, CreateProcessA/WaitForSingleObject build *)

\* CreateProcessA returns FALSE: the error line and continue
CreateProcessFail(p) ==
  /\ platform = "win" /\ InLoop(p)
  /\ out' = out \o <<Out(p, "creating", procs[p].i, 0),
                     Out(p, "command", procs[p].i, 0),
                     Out(p, "createprocess_failed", 0, 0)>>
  /\ sys' = Append(sys, Sys(p, "spawn", procs[p].i, -1, 0))
  /\ procs' = [procs EXCEPT ![p].i = @ + 1]
  /\ UNCHANGED <<platform, sigchldIgnored>>

\* the argument vector the child gets from cmd: "<self>" --child --id=<i>
CmdArgs(i) == <<ProgName, ChildFlag, IdPrefix \o FmtInt(i)>>

\* CreateProcessA succeeds: a new process runs the command line, the parent
\* holds its handles, prints and blocks in WaitForSingleObject
CreateProcessOK(p) ==
  /\ platform = "win" /\ InLoop(p)
  /\ LET c == Len(procs) + 1
         i == procs[p].i
     IN /\ out' = out \o <<Out(p, "creating", i, 0), Out(p, "command", i, 0),
                           Out(p, "spawned", i, c), Out(p, "waiting", i, 0)>>
        /\ sys' = Append(sys, Sys(p, "spawn", i, c, 0))
        /\ procs' = Append([procs EXCEPT ![p].pid = c, ![p].pc = "wait"],
                           NewProc(CmdArgs(i), p, "open"))
  /\ UNCHANGED <<platform, sigchldIgnored>>

\* after WaitForSingleObject returned ret: GetExitCodeProcess, the report line,
\* CloseHandle of both handles, next i
AfterWaitForSingleObject(p, ret) ==
  LET c == procs[p].pid
      ec == ExitCodeOf(procs[c])
  IN /\ out' = Append(out, OutCode(p, "exited_with_code", procs[p].i, ec))
     /\ sys' = sys \o <<SysCode(p, "wait", procs[p].i, ret, ec),
                        Sys(p, "close", procs[p].i, c, 0)>>
     /\ procs' = [procs EXCEPT ![c].handle = "closed",
                               ![c].st = IF @ = "zombie" THEN "gone" ELSE @,
                               ![p].pc = "loop", ![p].i = @ + 1]

\* WaitForSingleObject(pi.hProcess, INFINITE) returns WAIT_OBJECT_0 (0): the
\* child has terminated
WaitForSingleObjectOK(p) ==
  /\ platform = "win" /\ Running(p) /\ procs[p].pc = "wait"
  /\ procs[procs[p].pid].st # "running"
  /\ AfterWaitForSingleObject(p, 0)
  /\ UNCHANGED <<platform, sigchldIgnored>>

\* WaitForSingleObject returns WAIT_FAILED (-1 here) without having waited
WaitForSingleObjectFail(p) ==
  /\ platform = "win" /\ Running(p) /\ procs[p].pc = "wait"
  /\ AfterWaitForSingleObject(p, -1)
  /\ UNCHANGED <<platform, sigchldIgnored>>

----------------------------------------------------------------------------
(* Specifications *)

\* a step of the program of process p
Step(p) ==
  \/ ParseArgs(p)
  \/ MainChild(p)
  \/ ChildWake(p)
  \/ MainParent(p)
  \/ ParentFinish(p)
  \/ ForkFail(p)
  \/ ForkOK(p)
  \/ ExecOK(p)
  \/ ExecFail(p)
  \/ Waitpid(p)
  \/ WaitpidFail(p)
  \/ CreateProcessFail(p)
  \/ CreateProcessOK(p)
  \/ WaitForSingleObjectOK(p)
  \/ WaitForSingleObjectFail(p)

Next ==
  \/ \E p \in DOMAIN procs : ParseArgs(p)
  \/ \E p \in DOMAIN procs : MainChild(p)
  \/ \E p \in DOMAIN procs : ChildWake(p)
  \/ \E p \in DOMAIN procs : MainParent(p)
  \/ \E p \in DOMAIN procs : ParentFinish(p)
  \/ \E p \in DOMAIN procs : ForkFail(p)
  \/ \E p \in DOMAIN procs : ForkOK(p)
  \/ \E p \in DOMAIN procs : ExecOK(p)
  \/ \E p \in DOMAIN procs : ExecFail(p)
  \/ \E p \in DOMAIN procs : Waitpid(p)
  \/ \E p \in DOMAIN procs : WaitpidFail(p)
  \/ \E p \in DOMAIN procs : CreateProcessFail(p)
  \/ \E p \in DOMAIN procs : CreateProcessOK(p)
  \/ \E p \in DOMAIN procs : WaitForSingleObjectOK(p)
  \/ \E p \in DOMAIN procs : WaitForSingleObjectFail(p)
  \/ \E p \in DOMAIN procs : \E sig \in Signals : Kill(p, sig)

\* the whole program, started from the terminal
Spec == Init /\ [][Next]_vars

\* every process that can take a step of its program eventually takes one
FairSpec == Spec /\ \A p \in 1..(NumChildren + 1) : WF_vars(p \in DOMAIN procs /\ Step(p))

\* role resolution and the child worker alone, over longer --id= texts
NextArgs ==
  \/ \E p \in DOMAIN procs : ParseArgs(p)
  \/ \E p \in DOMAIN procs : MainChild(p)
  \/ \E p \in DOMAIN procs : ChildWake(p)
  \/ \E p \in DOMAIN procs : MainParent(p)

SpecArgs == InitArgs /\ [][NextArgs]_vars

----------------------------------------------------------------------------
(* Vocabulary of the properties *)

\* the root process resolved its role to parent
ParentRole == procs[Root].pc # "start" /\ procs[Root].is_child = 0

\* the root process ran as parent and has returned from main
ParentExited == ParentRole /\ procs[Root].pc = "exited"

IsSpawn(e, p) == e.ev = "spawn" /\ e.p = p

SpawnsBy(p) == SelectSeq(sys, LAMBDA e : IsSpawn(e, p))

\* the lines that report how child i ended
OutcomeEvents == {"exited_normally", "killed_by_signal", "terminated_status",
                  "exited_with_code"}

OutcomesFor(p, i) ==
  SelectSeq(out, LAMBDA e : e.p = p /\ e.ev \in OutcomeEvents /\ e.a = i)

WaitsFor(p, i) == SelectSeq(sys, LAMBDA e : e.ev = "wait" /\ e.p = p /\ e.i = i)

ExitedWith(p, code) ==
  /\ procs[p].pc = "exited"
  /\ procs[p].cause = [how |-> "exit", v |-> ExitArg(code).v, h |-> ExitArg(code).h]

----------------------------------------------------------------------------
(* C1: sequential ordering *)

\* C1: in a parent-role run the parent's spawn attempts are for index 1 then
\* index 2, never more than two, exactly two once the parent has finished, and
\* between a successful spawn and the next spawn attempt the wait for the
\* spawned child has returned.
C1_SequentialSpawns ==
  LET sp == SpawnsBy(Root) IN
    /\ Len(sp) <= 2
    /\ \A k \in 1..Len(sp) : sp[k].i = k
    /\ ParentExited => Len(sp) = 2
    /\ \A a \in 1..Len(sys) : \A b \in (a + 1)..Len(sys) :
         (IsSpawn(sys[a], Root) /\ sys[a].r # -1 /\ IsSpawn(sys[b], Root)) =>
           \E c \in (a + 1)..(b - 1) :
             sys[c].ev = "wait" /\ sys[c].p = Root /\ sys[c].i = sys[a].i

\* C1 witness: the parent finished after two successful spawns
C1_Witness ==
  /\ ParentExited
  /\ Len(SpawnsBy(Root)) = 2
  /\ \A k \in 1..2 : SpawnsBy(Root)[k].r # -1

----------------------------------------------------------------------------
(* C2: failure isolation *)

\* C2: when the spawn for index i fails the parent neither waits nor reports
\* an outcome for i, goes on to the spawn attempt for i + 1, and still exits
\* with code 0.
C2_SpawnFailureIsolated ==
  \A k \in 1..Len(sys) :
    (IsSpawn(sys[k], Root) /\ sys[k].r = -1) =>
      LET i == sys[k].i IN
        /\ WaitsFor(Root, i) = <<>>
        /\ OutcomesFor(Root, i) = <<>>
        /\ ~\E j \in 1..Len(sys) : sys[j].ev = "close" /\ sys[j].i = i
        /\ i < NumChildren =>
             \/ \E j \in (k + 1)..Len(sys) : IsSpawn(sys[j], Root) /\ sys[j].i = i + 1
             \/ Running(Root) /\ procs[Root].pc = "loop" /\ procs[Root].i = i + 1
        /\ procs[Root].pc = "exited" => ExitedWith(Root, 0)

\* C2 witness: the spawn for index 1 failed, index 2 was attempted, the parent
\* has exited
C2_Witness ==
  /\ ParentExited
  /\ \E k \in 1..Len(sys) : IsSpawn(sys[k], Root) /\ sys[k].r = -1 /\ sys[k].i = 1
  /\ \E k \in 1..Len(sys) : IsSpawn(sys[k], Root) /\ sys[k].i = 2

----------------------------------------------------------------------------
(* C3: index-to-exit-code identity *)

\* t is an unsigned decimal numeral
IsDecimal(t) == t # <<>> /\ \A k \in 1..Len(t) : isdigit(t[k])

\* the number a decimal numeral denotes
RECURSIVE DecValue(_)
DecValue(t) ==
  IF t = <<>> THEN 0
  ELSE DecValue(SubSeq(t, 1, Len(t) - 1)) * 10 + DigitVal(t[Len(t)])

\* process p was invoked as: <program> --child --id=<unsigned decimal N>
ChildInvocation(p) ==
  /\ Len(procs[p].argv) = 3
  /\ procs[p].argv[2] = ChildFlag
  /\ IsIdArg(procs[p].argv[3])
  /\ IsDecimal(IdText(procs[p].argv[3]))

InvokedIndex(p) == DecValue(IdText(procs[p].argv[3]))

ExitedNormally(p) == procs[p].pc = "exited" /\ procs[p].cause.how = "exit"

\* the exit code a parent whose wait succeeded reads for the terminated process p
DecodedCode(p) ==
  IF platform = "unix" THEN IntCode(WEXITSTATUS(WaitStatus(procs[p].cause)))
  ELSE ExitCodeOf(procs[p])

\* C3 as claimed: a process invoked with --child --id=N ends with exit code N,
\* for every N >= 0.
C3_ExitCodeIsIndex ==
  \A p \in DOMAIN procs :
    (ChildInvocation(p) /\ ExitedNormally(p)) =>
      DecodedCode(p) = ExitArg(InvokedIndex(p))

\* C3 as amended: a process invoked with --child --id=N ends with exit code
\* N mod 256 in the unix build (so N itself exactly when N <= 255) and with
\* exit code N in the windows build.
C3_ExitCodeIsIndexMod256 ==
  \A p \in DOMAIN procs :
    (ChildInvocation(p) /\ ExitedNormally(p)) =>
      DecodedCode(p) = ExitArg(IF platform = "unix" THEN InvokedIndex(p) % 256
                               ELSE InvokedIndex(p))

\* C3 witness: a unix child with an index above 255 has exited
C3_Witness ==
  /\ platform = "unix"
  /\ ChildInvocation(Root) /\ ExitedNormally(Root)
  /\ InvokedIndex(Root) > 255

----------------------------------------------------------------------------
(* C4: permissive parse *)

\* p was started with exactly one --id= argument and has resolved its role
OneIdParsed(p) ==
  /\ procs[p].pc \in {"main", "sleeping", "loop", "exited"}
  /\ p = Root
  /\ Len(SelectSeq(SubSeq(procs[p].argv, 2, Len(procs[p].argv)), IsIdArg)) = 1

TheIdText(p) ==
  IdText(SelectSeq(SubSeq(procs[p].argv, 2, Len(procs[p].argv)), IsIdArg)[1])

\* the value of the numeric prefix of t: white space is skipped, one sign is
\* taken, then the longest run of digits; 0 when that run is empty
LeadingNumber(t) ==
  LET sp == CHOOSE k \in 0..Len(t) :
              /\ \A j \in 1..k : isspace(t[j])
              /\ (k < Len(t) => ~isspace(t[k + 1]))
      sg == IF sp < Len(t) /\ t[sp + 1] \in {"-", "+"} THEN 1 ELSE 0
      from == sp + sg
      n  == CHOOSE k \in 0..(Len(t) - from) :
              /\ \A j \in 1..k : isdigit(t[from + j])
              /\ (from + k < Len(t) => ~isdigit(t[from + k + 1]))
      mag == DecValue(SubSeq(t, from + 1, from + n))
  IN IF sg = 1 /\ t[sp + 1] = "-" THEN 0 - mag ELSE mag

\* C4 as claimed: any --id= text that is not an unsigned decimal numeral
\* resolves to index 0.
C4_MalformedIsZero ==
  (OneIdParsed(Root) /\ ~IsDecimal(TheIdText(Root))) => procs[Root].child_idx = 0

\* C4 as amended: parse_args always completes, and the index it yields for an
\* --id= text is the value of the text's numeric prefix (optional white space,
\* optional sign, digits), which is 0 only when the text has no such prefix
\* or the prefix denotes 0: "12abc" yields 12 and "-3" yields -3.
C4_MalformedIsNumericPrefix ==
  /\ procs[Root].pc = "start" => ENABLED ParseArgs(Root)
  /\ OneIdParsed(Root) => procs[Root].child_idx = LeadingNumber(TheIdText(Root))

\* C4 witness: a malformed text with a numeric prefix was parsed to a non-zero
\* index, and another malformed text to 0
C4_Witness ==
  /\ OneIdParsed(Root) /\ ~IsDecimal(TheIdText(Root))
  /\ Len(TheIdText(Root)) = 3
  /\ TheIdText(Root)[3] = "a"
  /\ procs[Root].child_idx = 13

----------------------------------------------------------------------------
(* C5: a failed wait call *)

\* the lines the parent writes in an iteration in which nothing failed
RoutineLines == {"creating", "command", "created", "spawned", "waiting"} \cup OutcomeEvents

IsFailedWait(e) == e.ev = "wait" /\ e.p = Root /\ e.r = -1

\* C5: when the wait call for the child of index i fails, the parent reports
\* no termination outcome for that child and writes a diagnostic for the
\* failure, and goes on to the next index.
C5_WaitFailureSurfaced ==
  \A k \in 1..Len(sys) :
    IsFailedWait(sys[k]) =>
      /\ OutcomesFor(Root, sys[k].i) = <<>>
      /\ \E j \in 1..Len(out) :
           out[j].p = Root /\ out[j].a = sys[k].i /\ out[j].ev \notin RoutineLines
      /\ procs[Root].i > sys[k].i

----------------------------------------------------------------------------
(* C6: decoding the wait status *)

\* the pid the parent got from its successful spawn for index i
ChildPid(i) ==
  (CHOOSE e \in {sys[k] : k \in 1..Len(sys)} : IsSpawn(e, Root) /\ e.i = i /\ e.r # -1).r

SpawnedOK(i) == \E k \in 1..Len(sys) : IsSpawn(sys[k], Root) /\ sys[k].i = i /\ sys[k].r # -1

\* the outcome line that tells how process c, spawned for index i, ended
TrueOutcome(i, c) ==
  IF platform = "win" THEN OutCode(Root, "exited_with_code", i, ExitCodeOf(procs[c]))
  ELSE IF procs[c].cause.how = "exit"
       THEN Out(Root, "exited_normally", i, procs[c].cause.v % 256)
       ELSE Out(Root, "killed_by_signal", i, procs[c].cause.v)

\* on every raw status: an exit status of code K decodes to a normal exit with
\* K, a termination status of signal S (core dumped or not) to killed by S,
\* never both, and any other status is reported raw
DecodeClassifies ==
  /\ \A K \in 0..255 : Decode(Root, 1, K * 256) = Out(Root, "exited_normally", 1, K)
  /\ \A S \in 1..126 : \A core \in {0, 128} :
       Decode(Root, 1, S + core) = Out(Root, "killed_by_signal", 1, S)
  /\ \A s \in 0..MaxRawStatus :
       /\ ~(WIFEXITED(s) /\ WIFSIGNALED(s))
       /\ (~WIFEXITED(s) /\ ~WIFSIGNALED(s)) =>
            Decode(Root, 1, s) = Out(Root, "terminated_status", 1, s)

\* C6: the outcome the parent reports from a status a successful wait
\* delivered is the child's true outcome (normal exit with its code, or killed
\* by its signal); the decode never takes a status for both categories and
\* reports any other status raw; and there is exactly one outcome line per
\* successfully spawned child once its iteration is over, none otherwise.
C6_DecodeFaithful ==
  /\ DecodeClassifies
  /\ \A k \in 1..Len(sys) :
       (sys[k].ev = "wait" /\ sys[k].p = Root /\ sys[k].r # -1) =>
         OutcomesFor(Root, sys[k].i) = <<TrueOutcome(sys[k].i, ChildPid(sys[k].i))>>
  /\ \A i \in 1..NumChildren :
       Len(OutcomesFor(Root, i)) = IF SpawnedOK(i) /\ procs[Root].i > i THEN 1 ELSE 0

\* C6 witness: the parent reported a normal exit with code 1 for child 1 and a
\* kill by the core-dumping signal 11 for child 2
C6_Witness ==
  /\ ParentExited
  /\ OutcomesFor(Root, 1) = <<Out(Root, "exited_normally", 1, 1)>>
  /\ OutcomesFor(Root, 2) = <<Out(Root, "killed_by_signal", 2, 11)>>
  /\ \A k \in 1..Len(sys) : ~IsFailedWait(sys[k])

----------------------------------------------------------------------------
(* C7: every child is waited for and released *)

\* C7: every successfully spawned child is waited on once, and when its
\* iteration is over (so before the next spawn and when the parent exits) it
\* is neither running nor an unreaped zombie.
C7_ChildrenReleased ==
  \A i \in 1..NumChildren :
    SpawnedOK(i) =>
      /\ Len(WaitsFor(Root, i)) <= 1
      /\ procs[Root].i > i =>
           /\ Len(WaitsFor(Root, i)) = 1
           /\ procs[ChildPid(i)].st = "gone"

----------------------------------------------------------------------------
(* C8: the parent always completes *)

FinalLine == Out(Root, "all_completed", 0, 0)

\* the parent has processed both indices, written the final line and exited 0
ParentDone ==
  /\ ParentExited
  /\ ExitedWith(Root, 0)
  /\ Len(SpawnsBy(Root)) = NumChildren
  /\ \E j \in 1..Len(out) : out[j] = FinalLine

\* C8: when every process keeps taking the steps of its program, a parent-role
\* run leads to the parent having attempted both indices, written the final
\* completion line and exited with code 0, whatever spawn, exec and wait
\* failures and signal kills happen on the way.
C8_ParentCompletes == ParentRole ~> ParentDone

\* C8 witness: the parent completed a run in which a spawn failed and the
\* other child was killed by a signal
C8_Witness ==
  /\ ParentDone
  /\ \E k \in 1..Len(sys) : IsSpawn(sys[k], Root) /\ sys[k].r = -1
  /\ \E k \in 1..Len(sys) : sys[k].ev = "kill"

----------------------------------------------------------------------------
(* C9: exec failure *)

\* C9: a forked child whose execvp fails has exited with code 127, which is
\* none of 0, 1, 2; once the parent's iteration for it is over the parent has
\* reported a normal exit with code 127 for that index, and the parent goes on
\* (it is in a later iteration or has exited after both attempts).
C9_ExecFailureReported ==
  \A k \in 1..Len(sys) :
    (sys[k].ev = "exec" /\ sys[k].r = -1) =>
      LET c == sys[k].p
          i == sys[k].i
      IN /\ procs[c].pc = "exited"
         /\ procs[c].cause = [how |-> "exit", v |-> ExecFailCode, h |-> 0]
         /\ ExecFailCode \notin 0..NumChildren
         /\ procs[Root].i > i =>
              OutcomesFor(Root, i) = <<Out(Root, "exited_normally", i, ExecFailCode)>>
         /\ procs[Root].pc = "exited" => Len(SpawnsBy(Root)) = NumChildren

----------------------------------------------------------------------------
(* C10: the parent role ignores --id *)

\* the arguments, after argv[0], the root process was started with
RootArgs == SubSeq(procs[Root].argv, 2, Len(procs[Root].argv))

HasChildFlag(args) == \E k \in 1..Len(args) : args[k] = ChildFlag

\* the index of the parent's spawn that created process c
SpawnIndexOf(c) ==
  (CHOOSE e \in {sys[k] : k \in 1..Len(sys)} : IsSpawn(e, Root) /\ e.r = c).i

\* process c runs the program image the parent asked for (not the forked copy)
RunsProgram(c) ==
  \/ platform = "win"
  \/ \E k \in 1..Len(sys) : sys[k].ev = "exec" /\ sys[k].p = c /\ sys[k].r = 0

\* C10: without --child among the arguments the role is parent, whatever
\* --id= arguments there are; the parent's spawns are for indices 1 and 2 and
\* each spawned program gets exactly --child --id=<that index> and resolves to
\* that index, never to the parent's parsed --id value; and the parent exits 0.
C10_ParentIgnoresId ==
  (~HasChildFlag(RootArgs) /\ procs[Root].pc # "start") =>
    /\ procs[Root].is_child = 0
    /\ procs[Root].pc \in {"main", "loop", "wait", "exited"}
    /\ \A k \in 1..Len(sys) : IsSpawn(sys[k], Root) => sys[k].i \in 1..NumChildren
    /\ \A c \in DOMAIN procs \ {Root} :
         RunsProgram(c) =>
           /\ SubSeq(procs[c].argv, 2, Len(procs[c].argv)) =
                <<ChildFlag, IdArg(FmtInt(SpawnIndexOf(c)))>>
           /\ (procs[c].pc \in {"main", "sleeping"} \/ procs[c].cause.how = "exit") =>
                procs[c].is_child = 1 /\ procs[c].child_idx = SpawnIndexOf(c)
    /\ procs[Root].pc = "exited" => ExitedWith(Root, 0)

\* C10 witness: a parent started with --id=3 has exited after children that
\* resolved to index 1 and index 2 ran
C10_Witness ==
  /\ RootArgs = <<IdArg(<<"3">>)>>
  /\ procs[Root].child_idx = 3
  /\ ParentExited
  /\ Len(procs) = 3
  /\ procs[2].child_idx = 1 /\ procs[3].child_idx = 2

\* C10 witness for the default role: started with no arguments, parent
C10_WitnessNoArgs == RootArgs = <<>> /\ ParentExited

----------------------------------------------------------------------------
(* C11: --child without --id *)

NoIdArg(args) == \A k \in 1..Len(args) : ~IsIdArg(args[k])

\* process p resolved its role to child
ChildRole(p) == procs[p].pc # "start" /\ procs[p].is_child # 0

\* the lines the program image of p wrote (for a forked copy that went through
\* execvp: since the exec)
ImageLines(p) ==
  SelectSeq(out, LAMBDA e : e.p = p /\ e.ev \notin {"im_child", "executing"})

HelloLine(p) == Out(p, "hello", procs[p].child_idx, procs[p].ppid)

DoneLine(p) == Out(p, "done", procs[p].child_idx, 0)

\* C11: started with --child and no --id= argument, the process resolves its
\* role without an error to child with index 0, runs the child worker (both
\* lines carry index 0, no parent code runs) and terminates with exit code 0.
C11_ChildWithoutIdIsZero ==
  (HasChildFlag(RootArgs) /\ NoIdArg(RootArgs)) =>
    /\ procs[Root].pc = "start" => ENABLED ParseArgs(Root)
    /\ procs[Root].pc # "start" => procs[Root].is_child = 1 /\ procs[Root].child_idx = 0
    /\ procs[Root].pc \in {"start", "main", "sleeping", "exited"}
    /\ procs[Root].pc = "sleeping" => ImageLines(Root) = <<Out(Root, "hello", 0, 0)>>
    /\ procs[Root].pc = "exited" =>
         /\ ImageLines(Root) = <<Out(Root, "hello", 0, 0), Out(Root, "done", 0, 0)>>
         /\ ExitedWith(Root, 0)

\* C11 witness: a process started with --child alone, in either position, has
\* run the worker and exited
C11_Witness ==
  /\ RootArgs \in {<<ChildFlag>>, <<OtherArg, ChildFlag>>}
  /\ procs[Root].pc = "exited"
  /\ Len(ImageLines(Root)) = 2

----------------------------------------------------------------------------
(* C12: the child worker never returns *)

\* calls only the parent's loop and the end of main make
OrchestratorCalls == {"spawn", "wait", "close", "return"}

CallsBy(p, evs) == SelectSeq(sys, LAMBDA e : e.p = p /\ e.ev \in evs)

\* C12: a process in child role writes the identification line, sleeps,
\* writes the completion line and terminates by _exit / ExitProcess with its
\* index; it never returns from main and never spawns, waits or closes
\* (a child killed by a signal stops somewhere on that path).
C12_WorkerNeverReturns ==
  \A p \in DOMAIN procs :
    ChildRole(p) =>
      /\ procs[p].pc \in {"main", "sleeping", "exited"}
      /\ CallsBy(p, OrchestratorCalls) = <<>>
      /\ procs[p].pc = "main" => ImageLines(p) = <<>>
      /\ procs[p].pc = "sleeping" => ImageLines(p) = <<HelloLine(p)>>
      /\ procs[p].pc = "exited" =>
           IF procs[p].cause.how = "exit"
           THEN /\ ImageLines(p) = <<HelloLine(p), DoneLine(p)>>
                /\ CallsBy(p, {"exit"}) =
                     <<SysCode(p, "exit", 0, 0, ExitArg(procs[p].child_idx))>>
                /\ ExitedWith(p, procs[p].child_idx)
           ELSE /\ ImageLines(p) \in {<<>>, <<HelloLine(p)>>}
                /\ CallsBy(p, {"exit"}) = <<>>

\* C12 witness: the child of index 2 wrote both lines and ended itself, and
\* the parent has finished
C12_Witness ==
  /\ ParentExited
  /\ \E p \in DOMAIN procs \ {Root} :
       /\ ChildRole(p) /\ ExitedNormally(p)
       /\ procs[p].child_idx = 2
       /\ ImageLines(p) = <<HelloLine(p), DoneLine(p)>>

----------------------------------------------------------------------------
(* C13: one child at a time *)

\* the spawned processes that are running or terminated and not yet reaped
LiveChildren == {c \in DOMAIN procs \ {Root} : procs[c].st \in {"running", "zombie"}}

\* C13: in a parent-role run at most one child is running or unreaped; once
\* iteration 1 is over (so when the spawn attempt for index 2 begins) the child
\* of index 1 has terminated and been reaped; and a wait that returned with
\* success in iteration i returned for the child spawned in iteration i, which
\* has terminated, with that child's status.
C13_OneChildAtATime ==
  ParentRole =>
    /\ Cardinality(LiveChildren) <= 1
    /\ (procs[Root].i > 1 /\ SpawnedOK(1)) => procs[ChildPid(1)].st = "gone"
    /\ \A k \in 1..Len(sys) :
         (sys[k].ev = "wait" /\ sys[k].p = Root /\ sys[k].r # -1) =>
           LET c == ChildPid(sys[k].i) IN
             /\ procs[c].pc = "exited" /\ procs[c].st = "gone"
             /\ platform = "unix" =>
                  sys[k].r = c /\ sys[k].v = WaitStatus(procs[c].cause)
             /\ platform = "win" =>
                  [h |-> sys[k].h, v |-> sys[k].v] = ExitCodeOf(procs[c])

----------------------------------------------------------------------------
(* C14: launch-argument round trip *)

\* no spawn, exec or wait call failed and no process was killed by a signal
NoFailure ==
  \A k \in 1..Len(sys) : sys[k].r # -1 /\ sys[k].ev # "kill"

\* the line by which the parent reports a normal exit of child i with code
NormalExitLine(i, code) ==
  IF platform = "win" THEN OutCode(Root, "exited_with_code", i, Dword(code))
  ELSE Out(Root, "exited_normally", i, code)

\* the outcome lines and the final completion line of the parent, in order
ReportLines ==
  SelectSeq(out, LAMBDA e : e.p = Root /\ e.ev \in OutcomeEvents \cup {"all_completed"})

\* C14: the argument vector the parent builds for index i resolves to role
\* child with index i, in both builds; every program the parent launched was
\* given that vector; and a parent that has exited after a run without any
\* failure or signal reported a normal exit with code 1 for child 1, then with
\* code 2 for child 2, then the final completion line, and exited with 0.
C14_LaunchRoundTrip ==
  /\ \A i \in 1..NumChildren :
       /\ parse_args(ChildArgs(<<ProgName>>, i)) = [is_child |-> 1, child_idx |-> i]
       /\ parse_args(CmdArgs(i)) = [is_child |-> 1, child_idx |-> i]
  /\ ParentRole =>
       \A c \in DOMAIN procs \ {Root} :
         RunsProgram(c) =>
           /\ procs[c].argv = (IF platform = "win" THEN CmdArgs(SpawnIndexOf(c))
                               ELSE ChildArgs(procs[Root].argv, SpawnIndexOf(c)))
           /\ ExitedNormally(c) => ExitedWith(c, SpawnIndexOf(c))
  /\ (ParentExited /\ NoFailure) =>
       /\ ReportLines = <<NormalExitLine(1, 1), NormalExitLine(2, 2), FinalLine>>
       /\ ExitedWith(Root, 0)

\* C14 witness: a parent has exited after a run in which nothing failed
C14_Witness ==
  /\ ParentExited /\ NoFailure
  /\ Len(procs) = NumChildren + 1
  /\ \A c \in DOMAIN procs \ {Root} : ExitedNormally(c)

----------------------------------------------------------------------------
(* C15: a child killed by a signal *)

\* C15: when the child spawned for index i was killed by signal S, then once
\* iteration i is over the parent has reported, for i, exactly "killed by
\* signal S" (not a normal exit); the parent goes on to index i + 1, and when
\* it has exited it has attempted both indices and exited with code 0.
C15_SignalReported ==
  \A k \in 1..Len(sys) :
    (sys[k].ev = "kill" /\ ParentRole) =>
      LET c == sys[k].p
          i == SpawnIndexOf(c)
      IN /\ procs[Root].i > i =>
              OutcomesFor(Root, i) = <<Out(Root, "killed_by_signal", i, sys[k].v)>>
         /\ procs[Root].pc = "exited" =>
              Len(SpawnsBy(Root)) = NumChildren /\ ExitedWith(Root, 0)

----------------------------------------------------------------------------
(* C16: only the original parent spawns *)

\* lines only the loop and the end of the parent write
ParentLines == {"starting", "mypid", "mypath", "creating", "command", "created",
                "spawned", "waiting", "fork_failed", "createprocess_failed",
                "all_completed", "terminating"} \cup OutcomeEvents

\* the calls process c made so far
AllCallsBy(c) == SelectSeq(sys, LAMBDA e : e.p = c)

\* C16: in a parent-role run every spawn is made by the original parent, so at
\* most two processes are created; a forked copy makes one execvp call and
\* then either runs the new image or has exited with 127 (or it was killed);
\* no process but the original parent is in the loop or writes a line of the
\* parent; and the final completion line is written at most once, exactly
\* once when the parent has exited.
C16_OnlyParentSpawns ==
  ParentRole =>
    /\ \A k \in 1..Len(sys) : sys[k].ev = "spawn" => sys[k].p = Root
    /\ Len(procs) <= 1 + NumChildren
    /\ Len(SelectSeq(sys, LAMBDA e : e.ev = "spawn" /\ e.r # -1)) = Len(procs) - 1
    /\ \A c \in DOMAIN procs \ {Root} :
         /\ procs[c].pc \notin {"loop", "wait"}
         /\ \A j \in 1..Len(out) : out[j].p = c => out[j].ev \notin ParentLines
         /\ platform = "unix" =>
              LET calls == AllCallsBy(c) IN
                \/ procs[c].pc = "forked" /\ calls = <<>>
                \/ calls = <<Sys(c, "kill", 0, 0, procs[c].cause.v)>>
                     /\ procs[c].cause.how = "signal"
                \/ Len(calls) >= 1 /\ calls[1] = Sys(c, "exec", SpawnIndexOf(c), 0, 0)
                     /\ procs[c].argv = ChildArgs(procs[Root].argv, SpawnIndexOf(c))
                \/ calls = <<Sys(c, "exec", SpawnIndexOf(c), -1, 0),
                             Sys(c, "exit", 0, 0, ExecFailCode)>>
                     /\ ExitedWith(c, ExecFailCode)
    /\ Len(SelectSeq(out, LAMBDA e : e.ev = "all_completed")) =
         IF procs[Root].pc = "exited" THEN 1 ELSE 0

\* C16 witness: the parent has exited after one forked copy failed its execvp
\* and the other ran the new image to its end
C16_Witness ==
  /\ ParentExited /\ platform = "unix"
  /\ Len(procs) = 1 + NumChildren
  /\ \E k \in 1..Len(sys) : sys[k].ev = "exec" /\ sys[k].r = -1
  /\ \E c \in DOMAIN procs \ {Root} : ChildRole(c) /\ ExitedNormally(c)

----------------------------------------------------------------------------
(* C17: role resolution and argument order *)

IdArgsOf(args) == SelectSeq(args, IsIdArg)

\* args without the arguments parse_args does not recognise
Recognised(args) == SelectSeq(args, LAMBDA a : a = ChildFlag \/ IsIdArg(a))

Reversed(args) == [k \in 1..Len(args) |-> args[Len(args) + 1 - k]]

\* the role and index the claim gives for the arguments args
ResolvedByContent(args) ==
  [is_child |-> IF HasChildFlag(args) THEN 1 ELSE 0,
   child_idx |-> IF NoIdArg(args) THEN 0
                 ELSE LeadingNumber(IdText(IdArgsOf(args)[Len(IdArgsOf(args))]))]

\* C17: once the role is resolved, it is child iff --child occurs among the
\* arguments, and the index is the value of the last --id= argument (0 without
\* one), wherever --child stands; resolving the arguments without the
\* unrecognised ones gives the same, and so does resolving them in reverse
\* order when there is at most one --id= argument.
C17_OrderIndependent ==
  procs[Root].pc # "start" =>
    LET g == [is_child |-> procs[Root].is_child, child_idx |-> procs[Root].child_idx] IN
      /\ g = ResolvedByContent(RootArgs)
      /\ g = parse_args(<<ProgName>> \o Recognised(RootArgs))
      /\ Len(IdArgsOf(RootArgs)) <= 1 => g = parse_args(<<ProgName>> \o Reversed(RootArgs))

\* C17 witness: --id=13 before --child resolved to child with index 13
C17_Witness ==
  /\ RootArgs = <<IdArg(<<"1", "3">>), ChildFlag>>
  /\ procs[Root].pc = "exited"
  /\ procs[Root].is_child = 1 /\ procs[Root].child_idx = 13

\* C17 witness for two --id= arguments: the last one gave the index
C17_WitnessLastId ==
  /\ RootArgs = <<IdArg(<<"1", "3">>), IdArg(<<"1">>)>>
  /\ procs[Root].pc # "start"
  /\ procs[Root].child_idx = 1

====
